---- MODULE Spec2Model ----
(***************************************************************************)
(* Minimongo.Sorter: the sort-specification compiler, the sort-key         *)
(* extractor over array branches, the key comparator and the document      *)
(* comparator with its optional $near distance tie-break.                  *)
(*                                                                         *)
(* A JavaScript string is modelled as the sequence of its characters       *)
(* (<<>> is "", <<"$","a">> is "$a"), so that !path and path.charAt(0)     *)
(* are computed.  A thrown Error is modelled by its kind:                  *)
(*   "InvalidSpec"            sort keys must be non-empty /                *)
(*                            unsupported sort key / Bad sort specification*)
(*   "NoSpec"                 can't generate keys without a spec           *)
(*   "InconsistentBranches"   multiple branches but no array used?         *)
(*   "DuplicatePath"          duplicate path: ...                          *)
(*   "ParallelArrayMismatch"  cannot index parallel arrays(!)              *)
(*   "MissingPath"            no value in sole key case? / missing path?   *)
(*   "NoKeysFound"            sort selector found no keys in doc?          *)
(*   "KeyLengthMismatch"      Key has wrong length                         *)
(*   "MissingDistance"        Missing distance for ...                     *)
(***************************************************************************)
EXTENDS Integers, Sequences, FiniteSets, TLC

VARIABLES
    spec,           \* the argument of the constructor
    sortSpecParts,  \* self._sortSpecParts: sequence of [path, ascending]
    pc,             \* position in the construct / compare call
    error,          \* kind of the Error thrown, "none" when none was
    hasDistances,   \* options && options.distances
    distances,      \* options.distances: identifier -> distance
    idA, idB,       \* a._id, b._id of the two documents compared
    doc,            \* Path Lookup's output for the document keyed (SpecExtract)
    keys,           \* the key vectors handed to cb for the last document keyed
    key1, key2,     \* the minimum keys of the two documents
    base,           \* <<v>> once the base comparator has returned v
    result          \* the number the comparator returned

vars == <<spec, sortSpecParts, pc, error, hasDistances, distances, idA, idB,
          doc, keys, key1, key2, base, result>>

-----------------------------------------------------------------------------
(* Bounds of the model *)

\* most parts in a sort specification
MaxParts == 2
\* most branches Path Lookup returns for one part
MaxBranches == 2
\* numeric field values are 0..MaxVal
MaxVal == 1
\* array indices are 0..MaxIndex
MaxIndex == 1
\* distances are 0..MaxDist
MaxDist == 1
\* most parts of a specification compared with a distance map
MaxDistParts == 1

-----------------------------------------------------------------------------
(* Values *)

Null == [t |-> "null", n |-> 0]
Num(n) == [t |-> "number", n |-> n]
Numbers == {Num(n) : n \in 0..MaxVal}
Values == {Null} \cup Numbers

\* LocalCollection._f._cmp on null and numbers: null sorts before every
\* number, numbers by their difference.
_cmp(a, b) ==
    IF a.t = "null" /\ b.t = "null" THEN 0
    ELSE IF a.t = "null" THEN -1
    ELSE IF b.t = "null" THEN 1
    ELSE a.n - b.n

-----------------------------------------------------------------------------
(* The constructor *)

EmptyPath == <<>>
PathA == <<"a">>
PathB == <<"b">>
PathDollar == <<"$", "a">>
Paths == {EmptyPath, PathA, PathB, PathDollar}
Directions == {"asc", "desc", "other"}
Weights == {-1, 0, 1}

\* An element of an array specification: a bare string or a [path, dir] pair.
StringItem(p) == [kind |-> "string", path |-> p, dir |-> "", weight |-> 0]
PairItem(p, d) == [kind |-> "pair", path |-> p, dir |-> d, weight |-> 0]
\* A key: value entry of an object specification, in enumeration order.
EntryItem(p, w) == [kind |-> "entry", path |-> p, dir |-> "", weight |-> w]

ArrayItems == {StringItem(p) : p \in Paths}
              \cup {PairItem(p, d) : p \in Paths, d \in Directions}
EntryItems == {EntryItem(p, w) : p \in Paths, w \in Weights}

SeqsUpTo(S, n) == UNION {[1..k -> S] : k \in 0..n}

DistinctPaths(items) ==
    \A i, j \in 1..Len(items) : items[i].path = items[j].path => i = j

ArraySpecs == {[shape |-> "array", items |-> s] : s \in SeqsUpTo(ArrayItems, MaxParts)}
\* an object has each key once
ObjectSpecs == {[shape |-> "object", items |-> s] :
                    s \in {t \in SeqsUpTo(EntryItems, MaxParts) : DistinctPaths(t)}}
PrimitiveSpecs == {[shape |-> k, items |-> <<>>] :
                    k \in {"number", "string", "boolean", "null", "undefined"}}
RawSpecs == ArraySpecs \cup ObjectSpecs \cup PrimitiveSpecs

\* spec instanceof Array
InstanceOfArray(s) == s.shape = "array"

\* typeof spec
TypeOf(s) == IF s.shape \in {"array", "object", "null"} THEN "object" ELSE s.shape

\* ItemAscending with the tests narrowed to === "asc" and > 0
ItemAscendingOnlyAsc(item) ==
    IF item.kind = "string" THEN TRUE
    ELSE IF item.kind = "pair" THEN item.dir = "asc"
    ELSE item.weight > 0

\* the ascending flag of one element of the specification: lines 34, 36, 41
ItemAscending(item) ==
    IF item.kind = "string" THEN TRUE
    ELSE IF item.kind = "pair" THEN item.dir # "desc"
    ELSE item.weight >= 0

\* addSpecPart(path, ascending) on the state acc = [parts, err]
addSpecPart(acc, path, ascending) ==
    IF acc.err # "none" THEN acc
    ELSE IF path = <<>> THEN [acc EXCEPT !.err = "InvalidSpec"]
    ELSE IF path[1] = "$" THEN [acc EXCEPT !.err = "InvalidSpec"]
    ELSE [acc EXCEPT !.parts = Append(@, [path |-> path, ascending |-> ascending])]

RECURSIVE AddItems(_, _)
AddItems(acc, items) ==
    IF items = <<>> THEN acc
    ELSE AddItems(addSpecPart(acc, Head(items).path, ItemAscending(Head(items))),
                  Tail(items))

\* Minimongo.Sorter(spec): [parts, err]
Sorter(s) ==
    LET start == [parts |-> <<>>, err |-> "none"]
    IN  IF InstanceOfArray(s) THEN AddItems(start, s.items)
        ELSE IF TypeOf(s) = "object" THEN AddItems(start, s.items)
        ELSE [start EXCEPT !.err = "InvalidSpec"]

-----------------------------------------------------------------------------
(* Path Lookup's output *)

\* A branch: a value and, when the path went through an array, arrayIndices.
\* indexed = FALSE models a branch that has no arrayIndices property.
Branch(v, indexed, indices) == [value |-> v, indexed |-> indexed, arrayIndices |-> indices]
IndexPaths == {<<>>} \cup {<<i>> : i \in 0..MaxIndex}
Branches == {Branch(v, FALSE, <<>>) : v \in Numbers}
            \cup {Branch(v, TRUE, p) : v \in Numbers, p \in IndexPaths}
\* expandArraysInBranches(spec.lookup(doc), true) for one part
Lookups == SeqsUpTo(Branches, MaxBranches)
\* a document, as the lookups of the n parts see it
Docs(n) == [1..n -> Lookups]

-----------------------------------------------------------------------------
(* _generateKeysFromDoc *)

RECURSIVE Join(_)
\* indices.join(',')
Join(indices) ==
    IF indices = <<>> THEN ""
    ELSE IF Len(indices) = 1 THEN ToString(indices[1])
    ELSE ToString(indices[1]) \o "," \o Join(Tail(indices))

pathFromIndices(indices) == Join(indices) \o ","

\* A JavaScript object used as a map, as the sequence of its [path, value]
\* properties in insertion order.
Has(obj, path) == \E i \in 1..Len(obj) : obj[i].path = path
Get(obj, path) == obj[CHOOSE i \in 1..Len(obj) : obj[i].path = path].value
Size(obj) == Len(obj)
KeysOf(obj) == [i \in 1..Len(obj) |-> obj[i].path]
InPaths(paths, path) == \E i \in 1..Len(paths) : paths[i] = path

\* One call of the callback of _.each(branches, ...), lines 170-200, on
\* acc = [values, usedPaths, err]; known = [set, paths] is knownPaths.
EachBranch(acc, branch, nBranches, known) ==
    IF acc.err # "none" THEN acc
    ELSE IF ~branch.indexed
    THEN IF nBranches > 1
         THEN [acc EXCEPT !.err = "InconsistentBranches"]
         ELSE [acc EXCEPT !.values = Append(@, [path |-> "", value |-> branch.value])]
    ELSE LET path == pathFromIndices(branch.arrayIndices)
         IN  IF Has(acc.values, path)
             THEN [acc EXCEPT !.usedPaths = TRUE, !.err = "DuplicatePath"]
             ELSE [values |-> Append(acc.values, [path |-> path, value |-> branch.value]),
                   usedPaths |-> TRUE,
                   err |-> IF known.set /\ ~InPaths(known.paths, path)
                           THEN "ParallelArrayMismatch" ELSE "none"]

RECURSIVE EachBranches(_, _, _, _)
EachBranches(acc, branches, nBranches, known) ==
    IF branches = <<>> THEN acc
    ELSE EachBranches(EachBranch(acc, Head(branches), nBranches, known),
                      Tail(branches), nBranches, known)

\* SizeMismatch with the test of lines 205-206 left out
SizeMismatchNever(known, values) == FALSE

\* lines 205-206: this part's paths differ in number from knownPaths
SizeMismatch(known, values) ==
    ~Has(values, "") /\ Size(known.paths) # Size(values)

\* BranchesOrNull with lines 165-166 left out
BranchesAsFound(lookup) == lookup

\* lines 165-166: no branch is one null value
BranchesOrNull(lookup) ==
    IF Len(lookup) = 0 THEN <<Branch(Null, FALSE, <<>>)>> ELSE lookup

\* One call of the callback of _.each(self._sortSpecParts, ...), lines 158-215,
\* on st = [byIndex, known, err]; lookup is what line 161 returns.
EachPart(st, lookup) ==
    IF st.err # "none" THEN st
    ELSE LET branches == BranchesOrNull(lookup)
             done == EachBranches([values |-> <<>>, usedPaths |-> FALSE, err |-> "none"],
                                  branches, Len(branches), st.known)
             byIndex == Append(st.byIndex, done.values)
         IN  IF done.err # "none"
             THEN [st EXCEPT !.byIndex = byIndex, !.err = done.err]
             ELSE IF st.known.set
             THEN IF SizeMismatch(st.known, done.values)
                  THEN [st EXCEPT !.byIndex = byIndex, !.err = "ParallelArrayMismatch"]
                  ELSE [st EXCEPT !.byIndex = byIndex]
             ELSE IF done.usedPaths
             THEN [st EXCEPT !.byIndex = byIndex,
                             !.known = [set |-> TRUE, paths |-> KeysOf(done.values)]]
             ELSE [st EXCEPT !.byIndex = byIndex]

RECURSIVE EachParts(_, _)
EachParts(st, lookups) ==
    IF lookups = <<>> THEN st
    ELSE EachParts(EachPart(st, Head(lookups)), Tail(lookups))

\* lines 219-223: the sole key; [err, key]
SoleKey(byIndex) ==
    IF \E i \in 1..Len(byIndex) : ~Has(byIndex[i], "")
    THEN [err |-> "MissingPath", key |-> <<>>]
    ELSE [err |-> "none", key |-> [i \in 1..Len(byIndex) |-> Get(byIndex[i], "")]]

\* KeyAtPath taking each part's first value, whatever its path
KeyAtPathFirstValue(byIndex, path) ==
    [err |-> "none", key |-> [i \in 1..Len(byIndex) |-> byIndex[i][1].value]]

\* lines 229-235: the key of one known path; [err, key]
KeyAtPath(byIndex, path) ==
    IF \E i \in 1..Len(byIndex) : ~Has(byIndex[i], "") /\ ~Has(byIndex[i], path)
    THEN [err |-> "MissingPath", key |-> <<>>]
    ELSE [err |-> "none",
          key |-> [i \in 1..Len(byIndex) |->
                      IF Has(byIndex[i], "") THEN Get(byIndex[i], "")
                      ELSE Get(byIndex[i], path)]]

RECURSIVE KeysAtPaths(_, _, _)
\* _.each(knownPaths, ...), lines 228-237; out = [err, keys]
KeysAtPaths(byIndex, paths, out) ==
    IF paths = <<>> \/ out.err # "none" THEN out
    ELSE LET k == KeyAtPath(byIndex, Head(paths))
         IN  KeysAtPaths(byIndex, Tail(paths),
                         IF k.err # "none" THEN [out EXCEPT !.err = k.err]
                         ELSE [out EXCEPT !.keys = Append(@, k.key)])

\* _generateKeysFromDoc(doc, cb): [err, keys], keys in the order cb gets them
_generateKeysFromDoc(parts, d) ==
    IF Len(parts) = 0 THEN [err |-> "NoSpec", keys |-> <<>>]
    ELSE LET st == EachParts([byIndex |-> <<>>,
                              known |-> [set |-> FALSE, paths |-> <<>>],
                              err |-> "none"], d)
         IN  IF st.err # "none" THEN [err |-> st.err, keys |-> <<>>]
             ELSE IF ~st.known.set
             THEN LET k == SoleKey(st.byIndex)
                  IN  IF k.err # "none" THEN [err |-> k.err, keys |-> <<>>]
                      ELSE [err |-> "none", keys |-> <<k.key>>]
             ELSE KeysAtPaths(st.byIndex, st.known.paths, [err |-> "none", keys |-> <<>>])

-----------------------------------------------------------------------------
(* The key comparator *)

RECURSIVE composeComparators(_)
\* composeComparators(comparatorArray)(a, b), given what each comparator of
\* the array does on (a, b) as [err, value]: the comparators after the first
\* that throws or returns non-zero are not called.
composeComparators(outcomes) ==
    IF outcomes = <<>> THEN [err |-> "none", value |-> 0]
    ELSE IF Head(outcomes).err # "none" THEN Head(outcomes)
    ELSE IF Head(outcomes).value # 0 THEN Head(outcomes)
    ELSE composeComparators(Tail(outcomes))

\* _keyFieldComparator without the inversion of lines 260-261
_keyFieldComparatorNoInvert(parts, i, k1, k2) == _cmp(k1[i], k2[i])

\* self._keyFieldComparator(i)(k1, k2)
_keyFieldComparator(parts, i, k1, k2) ==
    LET invert == ~parts[i].ascending
        compare == _cmp(k1[i], k2[i])
    IN  IF invert THEN -compare ELSE compare

\* self._keyComparator(k1, k2), built at line 58
_keyComparator(parts, k1, k2) ==
    composeComparators([i \in 1..Len(parts) |->
        [err |-> "none", value |-> _keyFieldComparator(parts, i, k1, k2)]])

\* _compareKeys(k1, k2): [err, value]
_compareKeys(parts, k1, k2) ==
    IF Len(k1) # Len(parts) \/ Len(k2) # Len(parts)
    THEN [err |-> "KeyLengthMismatch", value |-> 0]
    ELSE _keyComparator(parts, k1, k2)

-----------------------------------------------------------------------------
(* _getMinKeyFromDoc *)

\* MinKeyStep keeping the smaller value of each field on its own
MinKeyStepPerField(parts, m, key) ==
    IF m.err # "none" THEN m
    ELSE IF ~m.set THEN [m EXCEPT !.set = TRUE, !.key = key]
    ELSE [m EXCEPT !.key = [i \in 1..Len(key) |->
                               IF _keyFieldComparator(parts, i, key, m.key) < 0
                               THEN key[i] ELSE m.key[i]]]

\* the callback of lines 108-134 on m = [set, key, err]
MinKeyStep(parts, m, key) ==
    IF m.err # "none" THEN m
    ELSE IF ~m.set THEN [m EXCEPT !.set = TRUE, !.key = key]
    ELSE LET c == _compareKeys(parts, key, m.key)
         IN  IF c.err # "none" THEN [m EXCEPT !.err = c.err]
             ELSE IF c.value < 0 THEN [m EXCEPT !.key = key]
             ELSE m

RECURSIVE MinKeyFold(_, _, _)
MinKeyFold(parts, m, ks) ==
    IF ks = <<>> THEN m
    ELSE MinKeyFold(parts, MinKeyStep(parts, m, Head(ks)), Tail(ks))

\* _getMinKeyFromDoc(doc): [err, key, keys]
_getMinKeyFromDoc(parts, d) ==
    LET g == _generateKeysFromDoc(parts, d)
        m == MinKeyFold(parts, [set |-> FALSE, key |-> <<>>, err |-> "none"], g.keys)
    IN  IF g.err # "none" THEN [err |-> g.err, key |-> <<>>, keys |-> <<>>]
        ELSE IF m.err # "none" THEN [err |-> m.err, key |-> <<>>, keys |-> g.keys]
        ELSE IF ~m.set THEN [err |-> "NoKeysFound", key |-> <<>>, keys |-> g.keys]
        ELSE [err |-> "none", key |-> m.key, keys |-> g.keys]

-----------------------------------------------------------------------------
(* getComparator *)

Ids == {"x", "y"}
\* options.distances: the identifiers it has, each with its distance
DistanceMaps == UNION {[S -> 0..MaxDist] : S \in SUBSET Ids}

\* DistanceComparator subtracting the other way round
DistanceComparatorReversed(dist, a, b) ==
    IF a \notin DOMAIN dist THEN [err |-> "MissingDistance", value |-> 0]
    ELSE IF b \notin DOMAIN dist THEN [err |-> "MissingDistance", value |-> 0]
    ELSE [err |-> "none", value |-> dist[b] - dist[a]]

\* DistanceComparator without the test of lines 83-84, a missing distance
\* of b counting as 0
DistanceComparatorUncheckedB(dist, a, b) ==
    IF a \notin DOMAIN dist THEN [err |-> "MissingDistance", value |-> 0]
    ELSE [err |-> "none",
          value |-> dist[a] - (IF b \in DOMAIN dist THEN dist[b] ELSE 0)]

\* the second comparator of line 80 on (a, b): [err, value]
DistanceComparator(dist, a, b) ==
    IF a \notin DOMAIN dist THEN [err |-> "MissingDistance", value |-> 0]
    ELSE IF b \notin DOMAIN dist THEN [err |-> "MissingDistance", value |-> 0]
    ELSE [err |-> "none", value |-> dist[a] - dist[b]]

\* BaseSkipsKeys with lines 273-277 left out
BaseSkipsKeysNever(parts) == FALSE

\* line 273: the base comparator answers 0 without looking at the documents
BaseSkipsKeys(parts) == Len(parts) = 0

-----------------------------------------------------------------------------
(* The state machine.  pc: "new" -> "ready" (constructed) -> "key1" -> "key2"
   (the minimum key of the first, of the second document is known) ->
   "compared" (the base comparator returned, the distance comparator is
   next) -> "done"; "failed" when the constructor threw, "threw" when the
   comparator did. *)

\* the specifications the comparisons start from: [["a", d1], ["b", d2], ...]
StartSpecs(n) ==
    {s \in ArraySpecs :
        /\ Len(s.items) <= n
        /\ \A i \in 1..Len(s.items) :
              /\ s.items[i].kind = "pair"
              /\ s.items[i].dir \in {"asc", "desc"}
              /\ s.items[i].path = IF i = 1 THEN PathA ELSE PathB}

NoCall ==
    /\ error = "none"
    /\ doc = <<>>
    /\ keys = <<>>
    /\ key1 = <<>>
    /\ key2 = <<>>
    /\ base = <<>>
    /\ result = 0

NoDistances ==
    /\ hasDistances = FALSE
    /\ distances = <<>>
    /\ idA = "x"
    /\ idB = "y"

InitCompile ==
    /\ spec \in RawSpecs
    /\ sortSpecParts = <<>>
    /\ pc = "new"
    /\ NoDistances
    /\ NoCall

\* new Minimongo.Sorter(spec)
Construct ==
    /\ pc = "new"
    /\ LET s == Sorter(spec)
       IN  /\ sortSpecParts' = s.parts
           /\ error' = s.err
           /\ pc' = IF s.err = "none" THEN "ready" ELSE "failed"
    /\ UNCHANGED <<spec, hasDistances, distances, idA, idB, doc, keys, key1, key2,
                   base, result>>

\* the base comparator returns v: it is the whole comparator when no
\* distances were given (lines 72-74), the first of two otherwise (line 80)
BaseReturns(v) ==
    /\ base' = <<v>>
    /\ error' = "none"
    /\ IF hasDistances
       THEN pc' = "compared" /\ UNCHANGED result
       ELSE pc' = "done" /\ result' = v

\* lines 273-277
CompareEmpty ==
    /\ pc = "ready"
    /\ BaseSkipsKeys(sortSpecParts)
    /\ BaseReturns(0)
    /\ UNCHANGED <<spec, sortSpecParts, hasDistances, distances, idA, idB, doc, keys,
                   key1, key2>>

\* line 280 is next
AtKey1 ==
    /\ pc = "ready"
    /\ ~BaseSkipsKeys(sortSpecParts)

\* line 280: key1 = self._getMinKeyFromDoc(doc1), doc1 looking like d
GetMinKey1(d) ==
    /\ LET m == _getMinKeyFromDoc(sortSpecParts, d)
       IN  /\ keys' = m.keys
           /\ key1' = m.key
           /\ error' = m.err
           /\ pc' = IF m.err = "none" THEN "key1" ELSE "threw"
    /\ UNCHANGED <<spec, sortSpecParts, hasDistances, distances, idA, idB, key2,
                   base, result>>

MinKey1 ==
    /\ AtKey1
    /\ \E d \in Docs(Len(sortSpecParts)) : GetMinKey1(d) /\ UNCHANGED doc

\* the same step, the document recorded in doc
MinKey1OfDoc ==
    /\ AtKey1
    /\ \E d \in Docs(Len(sortSpecParts)) : GetMinKey1(d) /\ doc' = d

\* line 281: key2 = self._getMinKeyFromDoc(doc2)
MinKey2 ==
    /\ pc = "key1"
    /\ \E d \in Docs(Len(sortSpecParts)) :
          LET m == _getMinKeyFromDoc(sortSpecParts, d)
          IN  /\ keys' = m.keys
              /\ key2' = m.key
              /\ error' = m.err
              /\ pc' = IF m.err = "none" THEN "key2" ELSE "threw"
    /\ UNCHANGED <<spec, sortSpecParts, hasDistances, distances, idA, idB, doc, key1,
                   base, result>>

\* line 282: return self._compareKeys(key1, key2)
CompareKeys ==
    /\ pc = "key2"
    /\ LET c == _compareKeys(sortSpecParts, key1, key2)
       IN  IF c.err = "none"
           THEN BaseReturns(c.value)
           ELSE /\ error' = c.err
                /\ pc' = "threw"
                /\ UNCHANGED <<base, result>>
    /\ UNCHANGED <<spec, sortSpecParts, hasDistances, distances, idA, idB, doc, keys,
                   key1, key2>>

\* lines 80-86: the base comparator's result, then the distance comparator
TieBreak ==
    /\ pc = "compared"
    /\ hasDistances
    /\ LET c == composeComparators(<<[err |-> "none", value |-> base[1]],
                                     DistanceComparator(distances, idA, idB)>>)
       IN  /\ error' = c.err
           /\ result' = c.value
           /\ pc' = IF c.err = "none" THEN "done" ELSE "threw"
    /\ UNCHANGED <<spec, sortSpecParts, hasDistances, distances, idA, idB, doc, keys,
                   key1, key2, base>>

\* The constructor on every shape of specification.
NextCompile == Construct
SpecCompile == InitCompile /\ [][NextCompile]_vars

\* _compareKeys on any two key vectors.
InitKeys ==
    /\ spec \in StartSpecs(MaxParts)
    /\ sortSpecParts = Sorter(spec).parts
    /\ pc = "key2"
    /\ NoDistances
    /\ error = "none"
    /\ doc = <<>>
    /\ keys = <<>>
    /\ key1 \in SeqsUpTo(Values, MaxParts)
    /\ key2 \in SeqsUpTo(Values, MaxParts)
    /\ base = <<>>
    /\ result = 0
NextKeys == CompareKeys
SpecKeys == InitKeys /\ [][NextKeys]_vars

\* The base comparator, getComparator() without distances.
Init ==
    /\ spec \in StartSpecs(MaxParts)
    /\ sortSpecParts = Sorter(spec).parts
    /\ pc = "ready"
    /\ NoDistances
    /\ NoCall
Next == CompareEmpty \/ MinKey1 \/ MinKey2 \/ CompareKeys
Spec == Init /\ [][Next]_vars

\* The keys of one document: the base comparator up to line 280.
NextExtract == CompareEmpty \/ MinKey1OfDoc
SpecExtract == Init /\ [][NextExtract]_vars

\* getComparator({distances: ...}) on two documents.
InitDist ==
    /\ spec \in StartSpecs(MaxDistParts)
    /\ sortSpecParts = Sorter(spec).parts
    /\ pc = "ready"
    /\ hasDistances = TRUE
    /\ distances \in DistanceMaps
    /\ idA \in Ids
    /\ idB \in Ids
    /\ NoCall
NextDist == CompareEmpty \/ MinKey1 \/ MinKey2 \/ CompareKeys \/ TieBreak
SpecDist == InitDist /\ [][NextDist]_vars

-----------------------------------------------------------------------------
(* What the properties say about a document, read off its branches *)

Sign(n) == IF n < 0 THEN -1 ELSE IF n > 0 THEN 1 ELSE 0

\* the part's lookup has array-indexed branches
IsIndexed(lookup) == \E b \in 1..Len(lookup) : lookup[b].indexed
\* the path keys of the part's array-indexed branches
PathKeys(lookup) ==
    {pathFromIndices(lookup[b].arrayIndices) : b \in {c \in 1..Len(lookup) : lookup[c].indexed}}
\* several branches of which one has no index path
HasMixedBranches(lookup) ==
    Len(lookup) > 1 /\ \E b \in 1..Len(lookup) : ~lookup[b].indexed
\* two branches at one path key
HasDuplicateBranches(lookup) ==
    \E b, c \in 1..Len(lookup) :
        /\ b # c
        /\ lookup[b].indexed
        /\ lookup[c].indexed
        /\ pathFromIndices(lookup[b].arrayIndices) = pathFromIndices(lookup[c].arrayIndices)
\* the value of the part when it has no array-indexed branch
UnindexedValue(lookup) == IF Len(lookup) = 0 THEN Null ELSE lookup[1].value
\* the value of the part at a path key
ValueAtPath(lookup, path) ==
    lookup[CHOOSE b \in 1..Len(lookup) :
              lookup[b].indexed /\ pathFromIndices(lookup[b].arrayIndices) = path].value
\* the key vector of the document at a path key
VectorAtPath(d, path) ==
    [i \in 1..Len(d) |-> IF IsIndexed(d[i]) THEN ValueAtPath(d[i], path)
                         ELSE UnindexedValue(d[i])]
AllPathKeys(d) == UNION {PathKeys(d[i]) : i \in 1..Len(d)}
SeqToSet(sq) == {sq[i] : i \in 1..Len(sq)}

-----------------------------------------------------------------------------
(* The properties *)

\* C1: when key extraction succeeds, the minimum key _getMinKeyFromDoc
\* returns is one of the key vectors _generateKeysFromDoc emits for the
\* document, and _compareKeys puts it at or before every one of them.
C1_MinKeyIsLeastCandidate ==
    pc = "key1" =>
        LET candidates == _generateKeysFromDoc(sortSpecParts, doc).keys
        IN  /\ key1 \in SeqToSet(candidates)
            /\ \A k \in SeqToSet(candidates) :
                  LET c == _compareKeys(sortSpecParts, key1, k)
                  IN  c.err = "none" /\ c.value <= 0

\* candidates [1,0] and [0,1] under ascending/ascending: the minimum is [0,1]
C1_Witness ==
    /\ pc = "key1"
    /\ Len(sortSpecParts) = 2
    /\ sortSpecParts[1].ascending
    /\ sortSpecParts[2].ascending
    /\ keys = << <<Num(1), Num(0)>>, <<Num(0), Num(1)>> >>
    /\ key1 = <<Num(0), Num(1)>>

\* C2: over a document no part of which has mixed or duplicate branches,
\* key extraction fails with ParallelArrayMismatch exactly when two parts
\* both have array-indexed branches and their sets of path keys differ.
C2_ParallelArrayMismatchIff ==
    (/\ pc \in {"key1", "threw"}
     /\ \A i \in 1..Len(doc) :
           ~HasMixedBranches(doc[i]) /\ ~HasDuplicateBranches(doc[i]))
    => (error = "ParallelArrayMismatch"
        <=> \E i, j \in 1..Len(doc) :
               /\ IsIndexed(doc[i])
               /\ IsIndexed(doc[j])
               /\ PathKeys(doc[i]) # PathKeys(doc[j]))

\* the second part's path keys are a strict subset of the first part's
C2_Witness ==
    /\ pc = "threw"
    /\ error = "ParallelArrayMismatch"
    /\ Len(doc) = 2
    /\ PathKeys(doc[1]) = {"0,", "1,"}
    /\ PathKeys(doc[2]) = {"0,"}

\* C3: with a distance map, two documents that the base comparator finds
\* equal and that both have a distance are ordered by ascending distance;
\* a non-zero result of the base comparator is the result.
C3_DistanceTieBreak ==
    /\ (/\ pc \in {"done", "threw"}
        /\ base = <<0>>
        /\ idA \in DOMAIN distances
        /\ idB \in DOMAIN distances)
       => /\ pc = "done"
          /\ Sign(result) = IF distances[idA] < distances[idB] THEN -1
                            ELSE IF distances[idA] > distances[idB] THEN 1
                            ELSE 0
    /\ (pc \in {"done", "threw"} /\ base # <<>> /\ base # <<0>>)
       => pc = "done" /\ result = base[1]

\* two documents equal on the one part, the first the closer
C3_Witness ==
    /\ pc = "done"
    /\ Len(sortSpecParts) = 1
    /\ key1 = key2
    /\ base = <<0>>
    /\ idA \in DOMAIN distances
    /\ idB \in DOMAIN distances
    /\ distances[idA] < distances[idB]
    /\ result < 0

\* C4 as stated: once the base comparator has returned, a comparison in
\* which one identifier has no distance fails with MissingDistance, whether
\* the base comparator returned zero or not.
C4_MissingDistanceAlways ==
    (/\ pc \in {"done", "threw"}
     /\ base # <<>>
     /\ (idA \notin DOMAIN distances \/ idB \notin DOMAIN distances))
    => (pc = "threw" /\ error = "MissingDistance")

\* C4 as amended: it fails with MissingDistance when the base comparator
\* returned zero; when the base comparator returned non-zero that number is
\* returned and the distance map is not consulted.
C4_MissingDistanceOnTie ==
    /\ (/\ pc \in {"done", "threw"}
        /\ base = <<0>>
        /\ (idA \notin DOMAIN distances \/ idB \notin DOMAIN distances))
       => (pc = "threw" /\ error = "MissingDistance")
    /\ (/\ pc \in {"done", "threw"}
        /\ base # <<>>
        /\ base # <<0>>
        /\ (idA \notin DOMAIN distances \/ idB \notin DOMAIN distances))
       => (pc = "done" /\ error = "none" /\ result = base[1])

\* a tie on the one part, the first document has a distance, the second none
C4_Witness ==
    /\ pc = "threw"
    /\ error = "MissingDistance"
    /\ Len(sortSpecParts) = 1
    /\ base = <<0>>
    /\ idA \in DOMAIN distances
    /\ idB \notin DOMAIN distances

\* C5 as stated: the constructor fails for every specification holding an
\* empty path or a path that starts with "$", and for every specification
\* that is neither an array nor an object.
C5_BadSpecRejected ==
    (/\ pc # "new"
     /\ \/ spec.shape \notin {"array", "object"}
        \/ \E i \in 1..Len(spec.items) :
              \/ spec.items[i].path = <<>>
              \/ Head(spec.items[i].path) = "$")
    => (pc = "failed" /\ error = "InvalidSpec")

\* the ascending flag the three shapes give a part
StatedAscending(item) ==
    CASE item.kind = "entry" -> item.weight >= 0
      [] item.kind = "pair" -> item.dir # "desc"
      [] item.kind = "string" -> TRUE
\* the parts a specification names
StatedParts(items) ==
    [i \in 1..Len(items) |-> [path |-> items[i].path, ascending |-> StatedAscending(items[i])]]
RECURSIVE ItemsNaming(_, _)
\* the sequences of items of S that name the parts
ItemsNaming(parts, S) ==
    IF parts = <<>> THEN {<<>>}
    ELSE {<<it>> \o rest :
            it \in {x \in S : StatedParts(<<x>>) = <<Head(parts)>>},
            rest \in ItemsNaming(Tail(parts), S)}
\* the specifications, of the three shapes, that name the parts
SpecsNaming(parts) ==
    {[shape |-> "array", items |-> its] : its \in ItemsNaming(parts, ArrayItems)}
    \cup {[shape |-> "object", items |-> its] :
            its \in {t \in ItemsNaming(parts, EntryItems) : DistinctPaths(t)}}

\* C6: a specification that compiles gives the parts (path, ascending) it
\* names, ascending being w >= 0, d # "desc", or a bare string; every
\* specification of any of the three shapes naming the same parts in the
\* same order compiles to the same list of parts.
C6_ShapesCompileAlike ==
    pc = "ready" =>
        /\ sortSpecParts = StatedParts(spec.items)
        /\ \A other \in SpecsNaming(StatedParts(spec.items)) :
              Sorter(other) = [parts |-> sortSpecParts, err |-> "none"]

\* {"a": 1, "b": -1}, which [["a","asc"],["b","desc"]] and ["a",["b","desc"]]
\* name too
C6_Witness ==
    /\ pc = "ready"
    /\ spec = [shape |-> "object", items |-> <<EntryItem(PathA, 1), EntryItem(PathB, -1)>>]
    /\ sortSpecParts = <<[path |-> PathA, ascending |-> TRUE],
                         [path |-> PathB, ascending |-> FALSE]>>
    /\ [shape |-> "array", items |-> <<PairItem(PathA, "asc"), PairItem(PathB, "desc")>>]
          \in SpecsNaming(sortSpecParts)
    /\ [shape |-> "array", items |-> <<StringItem(PathA), PairItem(PathB, "desc")>>]
          \in SpecsNaming(sortSpecParts)

\* the parts on which the two keys differ
DifferingParts == {i \in 1..Len(sortSpecParts) : _cmp(key1[i], key2[i]) # 0}
Least(S) == CHOOSE i \in S : \A j \in S : i <= j

\* C7: _compareKeys on two key vectors as long as the specification returns
\* 0 when every part compares equal, and otherwise the Value Comparator's
\* result on the first part that differs, negated when that part is
\* descending; a vector of another length makes it fail with
\* KeyLengthMismatch.
C7_CompareKeysFirstNonZero ==
    pc \in {"done", "threw"} =>
        IF Len(key1) # Len(sortSpecParts) \/ Len(key2) # Len(sortSpecParts)
        THEN pc = "threw" /\ error = "KeyLengthMismatch"
        ELSE /\ pc = "done"
             /\ result = IF DifferingParts = {} THEN 0
                         ELSE LET i == Least(DifferingParts)
                              IN  IF sortSpecParts[i].ascending
                                  THEN _cmp(key1[i], key2[i])
                                  ELSE 0 - _cmp(key1[i], key2[i])

\* equal on the first part, the descending second part decides against the
\* Value Comparator
C7_Witness ==
    /\ pc = "done"
    /\ Len(sortSpecParts) = 2
    /\ ~sortSpecParts[2].ascending
    /\ key1 = <<Num(0), Num(0)>>
    /\ key2 = <<Num(0), Num(1)>>
    /\ result > 0

\* C8: with no parts the base comparator returns 0 without extracting any
\* key and without an error, and the distances alone decide the result.
C8_NoPartsDistanceOnly ==
    Len(sortSpecParts) = 0 =>
        /\ pc \in {"ready", "compared", "done", "threw"}
        /\ keys = <<>>
        /\ pc # "ready" => base = <<0>>
        /\ pc = "threw" =>
              /\ error = "MissingDistance"
              /\ (idA \notin DOMAIN distances \/ idB \notin DOMAIN distances)
        /\ pc = "done" =>
              /\ idA \in DOMAIN distances
              /\ idB \in DOMAIN distances
              /\ result = distances[idA] - distances[idB]

\* no parts, the second document the closer
C8_Witness ==
    /\ Len(sortSpecParts) = 0
    /\ pc = "done"
    /\ base = <<0>>
    /\ result > 0

\* C9: when key extraction succeeds the key vectors emitted are the one
\* vector of the parts' unindexed values when no part is array-indexed, and
\* otherwise one vector for each path key, holding each unindexed part's
\* value and each indexed part's value at that path key; a part without a
\* branch gives null and every vector has one value for each part.
C9_EmittedKeys ==
    pc = "key1" =>
        /\ \A i \in 1..Len(doc) :
              /\ ~HasMixedBranches(doc[i])
              /\ IsIndexed(doc[i]) => PathKeys(doc[i]) = AllPathKeys(doc)
        /\ \A k \in 1..Len(keys) : Len(keys[k]) = Len(sortSpecParts)
        /\ IF AllPathKeys(doc) = {}
           THEN keys = <<[i \in 1..Len(doc) |-> UnindexedValue(doc[i])]>>
           ELSE /\ Len(keys) = Cardinality(AllPathKeys(doc))
                /\ SeqToSet(keys) = {VectorAtPath(doc, p) : p \in AllPathKeys(doc)}

\* the first part has no branch, the second two array elements: null goes
\* into both vectors
C9_Witness ==
    /\ pc = "key1"
    /\ Len(doc) = 2
    /\ doc[1] = <<>>
    /\ PathKeys(doc[2]) = {"0,", "1,"}
    /\ keys = << <<Null, Num(1)>>, <<Null, Num(0)>> >>

\* C10: comparing two documents under a specification with a part returns
\* a number or fails with InconsistentBranches, DuplicatePath or
\* ParallelArrayMismatch; a document whose extraction does not fail so has
\* at least one key vector, every one as long as the specification.
C10_DefensiveErrorsUnreachable ==
    Len(sortSpecParts) >= 1 =>
        /\ error \in {"none", "InconsistentBranches", "DuplicatePath",
                      "ParallelArrayMismatch"}
        /\ pc = "threw" <=> error # "none"
        /\ pc \in {"key1", "key2"} =>
              /\ Len(keys) >= 1
              /\ \A k \in 1..Len(keys) : Len(keys[k]) = Len(sortSpecParts)
        /\ pc \in {"key1", "key2", "done"} => Len(key1) = Len(sortSpecParts)
        /\ pc \in {"key2", "done"} => Len(key2) = Len(sortSpecParts)

\* two parts, the second document has no branch for a part and two array
\* elements for the other, and the comparison returns a number
C10_Witness ==
    /\ pc = "done"
    /\ Len(sortSpecParts) = 2
    /\ Len(keys) = 2
    /\ key2[1] = Null
    /\ result # 0

====
